---- MODULE Spec2Model ----
(***************************************************************************)
(* A model of ir_convert.py: the conversion of irplus XML documents into   *)
(* Flipper IR files.                                                        *)
(*                                                                         *)
(* Text is a sequence of characters (one-character strings); a character   *)
(* outside ASCII is written by its code point name ("U+00E9").  A Python   *)
(* int is a sign and a magnitude, the magnitude a sequence of hex digits   *)
(* (most significant first, no leading zero), so that values beyond 32     *)
(* bits are represented exactly.                                           *)
(***************************************************************************)
EXTENDS Integers, Sequences, FiniteSets, TLC

VARIABLES
    fs,           \* ircodes/: document id -> what the parser finds in it
    pc,           \* position of the program
    idx,          \* the main loop's position in the glob
    stack,        \* the active get_device frames (the document each one reads)
    device,       \* the Device under construction or returned (NoDevice: none)
    seen,         \* the buttons the current get_device has iterated over
    exc,          \* the exception of the last Command construction ("" : none)
    generated,    \* the source documents for which an output file was written
    flipper_str,  \* the text last produced by generate_flipper_ir_file
    error         \* the exception that ended the program ("" : none)

vars == <<fs, pc, idx, stack, device, seen, exc, generated, flipper_str, error>>

(***************************************************************************)
(* Bounds of the model.                                                    *)
(***************************************************************************)
NDocs == 2
MaxButtons == 2
DevButtons == 2
MaxTokens == 3
MaxPulses == 6
MaxName == 3
RecursionLimit == NDocs + 2

(***************************************************************************)
(* Characters and text.                                                    *)
(***************************************************************************)
NonAscii == {"U+00E9", "U+3042"}

Whitespace == {" ", "\t", "\n"}

HexDigits == <<"0", "1", "2", "3", "4", "5", "6", "7",
               "8", "9", "A", "B", "C", "D", "E", "F">>

LowerHexDigits == <<"0", "1", "2", "3", "4", "5", "6", "7",
                    "8", "9", "a", "b", "c", "d", "e", "f">>

DecDigits == <<"0", "1", "2", "3", "4", "5", "6", "7", "8", "9">>

\* The value of a hex digit character, -1 for any other character.
HexVal(c) ==
    IF \E i \in 1..16 : HexDigits[i] = c
    THEN (CHOOSE i \in 1..16 : HexDigits[i] = c) - 1
    ELSE IF \E i \in 1..16 : LowerHexDigits[i] = c
    THEN (CHOOSE i \in 1..16 : LowerHexDigits[i] = c) - 1
    ELSE -1

isascii(text) == \A i \in 1..Len(text) : text[i] \notin NonAscii

replace_nonascii(text) == SelectSeq(text, LAMBDA c : c \notin NonAscii)

RECURSIVE lstrip(_)
lstrip(text) ==
    IF text # <<>> /\ Head(text) \in Whitespace THEN lstrip(Tail(text)) ELSE text

RECURSIVE rstrip(_)
rstrip(text) ==
    IF text # <<>> /\ text[Len(text)] \in Whitespace
    THEN rstrip(SubSeq(text, 1, Len(text) - 1))
    ELSE text

strip(text) == rstrip(lstrip(text))

RECURSIVE SplitFrom(_, _, _)
SplitFrom(text, cur, acc) ==
    IF text = <<>> THEN Append(acc, cur)
    ELSE IF Head(text) = " " THEN SplitFrom(Tail(text), <<>>, Append(acc, cur))
    ELSE SplitFrom(Tail(text), Append(cur, Head(text)), acc)

\* str.split(" "): every single space separates, empty pieces are kept.
split(text) == SplitFrom(text, <<>>, <<>>)

RECURSIVE join(_)
join(parts) ==
    IF parts = <<>> THEN <<>>
    ELSE IF Len(parts) = 1 THEN parts[1]
    ELSE parts[1] \o <<" ">> \o join(Tail(parts))

(***************************************************************************)
(* Python integers.                                                        *)
(***************************************************************************)
RECURSIVE Normalize(_)
Normalize(mag) ==
    IF mag # <<>> /\ Head(mag) = 0 THEN Normalize(Tail(mag)) ELSE mag

\* The digits of an int literal's body are hex digits, with single
\* underscores allowed between two digits.
DigitsOk(body) ==
    /\ body # <<>>
    /\ HexVal(body[1]) >= 0
    /\ HexVal(body[Len(body)]) >= 0
    /\ \A i \in 1..Len(body) : body[i] = "_" \/ HexVal(body[i]) >= 0
    /\ \A i \in 1..(Len(body) - 1) : ~(body[i] = "_" /\ body[i + 1] = "_")

DigitsOf(body) ==
    LET ds == SelectSeq(body, LAMBDA c : c # "_")
    IN  [i \in 1..Len(ds) |-> HexVal(ds[i])]

IntOf(negative, body) ==
    IF DigitsOk(body)
    THEN [ok |-> TRUE, neg |-> negative /\ Normalize(DigitsOf(body)) # <<>>,
          mag |-> Normalize(DigitsOf(body))]
    ELSE [ok |-> FALSE, neg |-> FALSE, mag |-> <<>>]

\* After a 0x prefix one underscore may precede the digits.
AfterPrefix(negative, v) ==
    IntOf(negative, IF v # <<>> /\ Head(v) = "_" THEN Tail(v) ELSE v)

Unsigned(negative, u) ==
    IF Len(u) >= 2 /\ u[1] = "0" /\ u[2] \in {"x", "X"}
    THEN AfterPrefix(negative, SubSeq(u, 3, Len(u)))
    ELSE IntOf(negative, u)

Stripped(t) ==
    IF t # <<>> /\ Head(t) \in {"+", "-"}
    THEN Unsigned(Head(t) = "-", Tail(t))
    ELSE Unsigned(FALSE, t)

\* int(text, 16): surrounding whitespace, a sign and a 0x prefix are accepted;
\* anything else raises ValueError.
int16(text) == Stripped(strip(text))

RECURSIVE MagValue(_)
MagValue(mag) ==
    IF mag = <<>> THEN 0
    ELSE 16 * MagValue(SubSeq(mag, 1, Len(mag) - 1)) + mag[Len(mag)]

\* The value of an int as a number of the model; used where the code does
\* arithmetic and the inputs keep the value small.
IntValue(n) == IF n.neg THEN 0 - MagValue(n.mag) ELSE MagValue(n.mag)

LowDigits(mag, k) ==
    IF Len(mag) <= k THEN mag ELSE SubSeq(mag, Len(mag) - k + 1, Len(mag))

\* n & (16^k - 1) for k <= 4, two's complement for a negative n.
LowBits(n, k) ==
    LET m == MagValue(LowDigits(n.mag, k))
        p == IF k = 2 THEN 256 ELSE 65536
    IN  IF n.neg THEN (p - m) % p ELSE m

\* (n >> 4k) & 0xffff for a non-negative n.
DigitsAbove(mag, k) ==
    IF Len(mag) <= k THEN <<>> ELSE SubSeq(mag, 1, Len(mag) - k)

RECURSIVE MagOf(_)
MagOf(v) == IF v = 0 THEN <<>> ELSE Append(MagOf(v \div 16), v % 16)

Nat2Int(v) == [ok |-> TRUE, neg |-> FALSE, mag |-> MagOf(v)]

(***************************************************************************)
(* struct.pack("<I", v), hexlify(sep=" "), upper(), decode("ascii").       *)
(***************************************************************************)
FitsU32(n) == ~n.neg /\ Len(n.mag) <= 8

Pad8(mag) == [i \in 1..(8 - Len(mag)) |-> 0] \o mag

\* The four bytes of v, least significant first, each as two hex digits.
PackLE(mag) ==
    LET p == Pad8(mag)
    IN  [b \in 1..4 |-> <<p[9 - 2 * b], p[10 - 2 * b]>>]

HexPair(byte) == <<HexDigits[byte[1] + 1], HexDigits[byte[2] + 1]>>

LowerBigEndianHex(mag) ==
    LET p == Pad8(mag)
    IN  join([b \in 1..4 |->
            <<LowerHexDigits[p[2 * b - 1] + 1], LowerHexDigits[p[2 * b] + 1]>>])

hexlify_upper(mag) == join([b \in 1..4 |-> HexPair(PackLE(mag)[b])])

(***************************************************************************)
(* pronto2lirc.                                                            *)
(***************************************************************************)
RECURSIVE DecOf(_)
DecOf(v) == IF v < 10 THEN <<DecDigits[v + 1]>>
            ELSE Append(DecOf(v \div 10), DecDigits[(v % 10) + 1])

\* str(v)
str(v) == IF v < 0 THEN <<"-">> \o DecOf(0 - v) ELSE DecOf(v)

\* round(x * 0.241246) for x >= 0, to the nearest integer, a tie to the even
\* one.  0.241246 = 120623/500000; the division is done in two steps to keep
\* the intermediate products small.
RoundScaled(x) ==
    LET A == (x \div 100) * 120623
        R == (A % 5000) * 100 + (x % 100) * 120623
        q == (A \div 5000) + (R \div 500000)
        r == R % 500000
    IN  IF r > 250000 \/ (r = 250000 /\ q % 2 = 1) THEN q + 1 ELSE q

\* int(round(code / frequency)) with frequency = 1 / (period * 0.241246).
\* The float result is the exact one here: the exact quotient is a multiple
\* of 1/500000, so it lies at least 2e-6 from a tie unless code * period is
\* an odd multiple of 250000, which the inputs of the model never reach.
PulseWidth(code, period) ==
    LET x == code * period
    IN  IF x < 0 THEN 0 - RoundScaled(0 - x) ELSE RoundScaled(x)

PreambleError == "ValueError: Pronto code should start with 0000"
MismatchError == "ValueError: Number of pulse widths does not match the preamble"
LiteralError == "ValueError: invalid literal for int() with base 16"

ProntoFail(e) == [ok |-> FALSE, exc |-> e, pulses |-> <<>>]

\* codes.append(int(s, 16)) for every token.
ProntoCodes(toks) == [i \in 1..Len(toks) |-> int16(toks[i])]

Pulses(codes) ==
    [ok |-> TRUE, exc |-> "",
     pulses |-> [i \in 1..(Len(codes) - 4) |->
                    str(PulseWidth(IntValue(codes[i + 4]), IntValue(codes[2])))]]

\* mag + c for a small c >= 0.
RECURSIVE AddSmall(_, _)
AddSmall(mag, c) ==
    IF c = 0 THEN mag
    ELSE IF mag = <<>> THEN MagOf(c)
    ELSE Append(AddSmall(SubSeq(mag, 1, Len(mag) - 1), (mag[Len(mag)] + c) \div 16),
                (mag[Len(mag)] + c) % 16)

\* a + b = h for a small h >= 0, whatever the size of a and b.
SumIs(a, b, h) ==
    IF a.neg /\ b.neg THEN FALSE
    ELSE IF a.neg THEN b.mag = AddSmall(a.mag, h)
    ELSE IF b.neg THEN a.mag = AddSmall(b.mag, h)
    ELSE /\ Len(a.mag) <= 7
         /\ Len(b.mag) <= 7
         /\ MagValue(a.mag) + MagValue(b.mag) = h

\* len(codes) == 4 + 2 * (codes[2] + codes[3]), for len(codes) >= 4.
CountMatches(codes) ==
    /\ (Len(codes) - 4) % 2 = 0
    /\ SumIs(codes[3], codes[4], (Len(codes) - 4) \div 2)

ProntoUncounted(codes) ==
    IF \E i \in 1..Len(codes) : ~codes[i].ok THEN ProntoFail(LiteralError)
    ELSE IF codes[1].mag # <<>> THEN ProntoFail(PreambleError)
    ELSE IF Len(codes) < 4 THEN ProntoFail("IndexError")
    ELSE IF codes[2].mag = <<>> THEN ProntoFail("ZeroDivisionError")
    ELSE Pulses(codes)

ProntoChecked(codes) ==
    IF \E i \in 1..Len(codes) : ~codes[i].ok THEN ProntoFail(LiteralError)
    ELSE IF codes[1].mag # <<>> THEN ProntoFail(PreambleError)
    ELSE IF Len(codes) < 4 THEN ProntoFail("IndexError")
    ELSE IF ~CountMatches(codes) THEN ProntoFail(MismatchError)
    ELSE IF codes[2].mag = <<>> THEN ProntoFail("ZeroDivisionError")
    ELSE Pulses(codes)

pronto2lirc(pronto) == ProntoChecked(ProntoCodes(split(pronto)))

(***************************************************************************)
(* yamahanec_code_to_lirc is imported from a module that is not part of    *)
(* the sources at hand: it either raises or returns an integer of at most  *)
(* 32 bits.  Its outcome is an input of the Command construction.          *)
(***************************************************************************)
YamahaRaises == [ok |-> FALSE, neg |-> FALSE, mag |-> <<>>]

YamahaOutcomes ==
    {YamahaRaises,
     [ok |-> TRUE, neg |-> FALSE, mag |-> <<7, 14, 8, 1, 6, 10, 9, 5>>],
     [ok |-> TRUE, neg |-> FALSE, mag |-> <<1, 2, 0, 3, 4>>]}

yamahanec_code_to_lirc(data, outcome) == outcome

(***************************************************************************)
(* Command.__init__.                                                       *)
(***************************************************************************)
Unset == <<"(unset)">>

NoCommand == [name |-> <<>>, type_ |-> "", protocol |-> "", address |-> Unset,
              command |-> Unset, data |-> Unset, duty_cycle |-> "",
              frequency |-> 0]

Raise(e) == [ok |-> FALSE, exc |-> e, cmd |-> NoCommand]

Parsed(name, frequency, protocol, address, command) ==
    IF FitsU32(command) /\ FitsU32(address)
    THEN [ok |-> TRUE, exc |-> "",
          cmd |-> [name |-> name, type_ |-> "parsed", protocol |-> protocol,
                   address |-> hexlify_upper(address.mag),
                   command |-> hexlify_upper(command.mag),
                   data |-> Unset, duty_cycle |-> "", frequency |-> frequency]]
    ELSE Raise("struct.error")

Raw(name, frequency, data) ==
    [ok |-> TRUE, exc |-> "",
     cmd |-> [name |-> name, type_ |-> "raw", protocol |-> "",
              address |-> Unset, command |-> Unset,
              data |-> data, duty_cycle |-> "0.33", frequency |-> frequency]]

CommandAddress(name, frequency, protocol, address, command) ==
    IF ~command.ok THEN Raise(LiteralError)
    ELSE Parsed(name, frequency, protocol, command, address)

AddressCommand(name, frequency, protocol, address, command) ==
    IF ~command.ok THEN Raise(LiteralError)
    ELSE Parsed(name, frequency, protocol, address, command)

AddressThen(name, frequency, protocol, address, data_split) ==
    IF ~address.ok THEN Raise(LiteralError)
    ELSE IF Len(data_split) < 2 THEN Raise("IndexError")
    ELSE AddressCommand(name, frequency, protocol, address, int16(data_split[2]))

SplitTokens(name, frequency, protocol, data_split) ==
    AddressThen(name, frequency, protocol, int16(data_split[1]), data_split)

\* The branches that read two space-separated tokens: address, then command.
TwoTokens(name, frequency, protocol, data) ==
    SplitTokens(name, frequency, protocol, split(data))

\* WINLIRC_RC5: the low byte is the command, the next byte the address.
Rc5(name, frequency, command_int) ==
    IF ~command_int.ok THEN Raise(LiteralError)
    ELSE Parsed(name, frequency, "RC5",
                Nat2Int(LowBits(command_int, 4) \div 256),
                Nat2Int(LowBits(command_int, 2)))

\* YAMAHA_NEC_HEX: the low 16 bits are the command, the next 16 the address.
Yamaha(name, frequency, command_int) ==
    IF ~command_int.ok THEN Raise("yamahanec2lirc error")
    ELSE Parsed(name, frequency, "NECext",
                Nat2Int(MagValue(LowDigits(DigitsAbove(command_int.mag, 4), 4))),
                Nat2Int(LowBits(command_int, 4)))

Pronto(name, frequency, r) ==
    IF r.ok THEN Raw(name, frequency, join(r.pulses)) ELSE Raise(r.exc)

Command(format, frequency, name, data, yamaha) ==
    IF format = "WINLIRC_RC5" THEN Rc5(name, frequency, int16(data))
    ELSE IF format \in {"WINLIRC_NEC1", "WINLIRC_NECx1"} THEN
        TwoTokens(name, frequency, "NECext", data)
    ELSE IF format = "WINLIRC_RC6" THEN
        TwoTokens(name, frequency, "RC6", data)
    ELSE IF format \in {"WINLIRC_RAW", "WINLIRC_RAW_T"} THEN
        Raw(name, frequency, data)
    ELSE IF format = "PRONTO_HEX" THEN
        Pronto(name, frequency, pronto2lirc(data))
    ELSE IF format = "YAMAHA_NEC_HEX" THEN
        Yamaha(name, frequency, yamahanec_code_to_lirc(data, yamaha))
    ELSE IF format = "XIAOMI_IR" THEN
        TwoTokens(name, frequency, "NEC", data)
    ELSE Raise("NotImplementedError")

(***************************************************************************)
(* Device.__init__ and generate_flipper_ir_file.                           *)
(***************************************************************************)
ReplaceSlash(text) == [i \in 1..Len(text) |-> IF text[i] = "/" THEN "-" ELSE text[i]]

Device(filename, manufacturer, model, format, frequency) ==
    [filename |-> filename, manufacturer |-> manufacturer,
     model |-> ReplaceSlash(model), format |-> format,
     frequency |-> frequency, commands |-> <<>>]

NoDevice == [filename |-> 0, manufacturer |-> <<>>, model |-> <<>>,
             format |-> "", frequency |-> 0, commands |-> <<>>]

Line(k, v) == [k |-> k, v |-> v]

CommandBlockBoth(command) ==
    <<Line("#", <<>>), Line("name", command.name),
      Line("protocol", command.protocol), Line("address", command.address),
      Line("command", command.command), Line("type", command.type_),
      Line("frequency", command.frequency),
      Line("duty_cycle", command.duty_cycle), Line("data", command.data)>>

CommandBlock(command) ==
    <<Line("#", <<>>), Line("name", command.name)>> \o
    (IF command.protocol # ""
     THEN <<Line("protocol", command.protocol),
            Line("address", command.address),
            Line("command", command.command)>>
     ELSE <<Line("type", command.type_),
            Line("frequency", command.frequency),
            Line("duty_cycle", command.duty_cycle),
            Line("data", command.data)>>)

RECURSIVE CommandBlocks(_)
CommandBlocks(commands) ==
    IF commands = <<>> THEN <<>>
    ELSE CommandBlock(Head(commands)) \o CommandBlocks(Tail(commands))

generate_flipper_ir_file(dev) ==
    <<Line("Filetype", "IR signals file"), Line("Version", 1), Line("#", <<>>),
      Line("#", <<dev.manufacturer, dev.model>>),
      Line("# Autogenerated from", dev.filename)>>
    \o CommandBlocks(dev.commands)

\* flipper_str.encode("ascii") raises UnicodeEncodeError on a character
\* outside ASCII; names are already stripped of them, raw data is not.
Encodable(dev) ==
    /\ isascii(dev.manufacturer)
    /\ isascii(dev.model)
    /\ \A i \in 1..Len(dev.commands) :
          dev.commands[i].protocol = "" => isascii(dev.commands[i].data)

(***************************************************************************)
(* get_device: the name of a button.                                       *)
(***************************************************************************)
Absent == [has |-> FALSE, v |-> <<>>]

Attr(v) == [has |-> TRUE, v |-> v]

Unknown == <<"U", "n", "k", "n", "o", "w", "n">>

HasName(button) == button.alt.has \/ button.label.has

LabelFirst(button) == IF button.label.has THEN button.label.v ELSE button.alt.v

NameCandidate(button) == IF button.alt.has THEN button.alt.v ELSE button.label.v

OrUnknown(text) == IF ~isascii(text) \/ Len(text) = 0 THEN Unknown ELSE text

command_name(button) == OrUnknown(strip(replace_nonascii(NameCandidate(button))))

(***************************************************************************)
(* The inputs: what the documents hold.                                    *)
(***************************************************************************)
Formats == {"WINLIRC_RC5", "WINLIRC_NEC1", "WINLIRC_NECx1", "WINLIRC_RC6",
            "WINLIRC_RAW", "WINLIRC_RAW_T", "PRONTO_HEX", "YAMAHA_NEC_HEX",
            "XIAOMI_IR"}

TwoTokenFormats == {"WINLIRC_NEC1", "WINLIRC_NECx1", "WINLIRC_RC6", "XIAOMI_IR"}

\* A format attribute the code does not know; "None" is the default of an
\* absent attribute.
OtherFormats == {"None", "SONY12"}

DefaultFrequency == 38000

Manufacturers == {<<"A", "c", "m", "e">>}

Models == {<<"T", "V", "/", "1">>}

\* What the parser finds in a document: a device element, else a linked
\* element naming an asset (0: a file that does not exist), else neither.
DocKinds(n) ==
    {[kind |-> "device", asset |-> 0], [kind |-> "empty", asset |-> 0]}
    \cup {[kind |-> "linked", asset |-> a] : a \in 0..n}

Corpora(n) == [1..n -> DocKinds(n)]

T_11 == <<"1", "1">>
T_AB == <<"A", "B">>
T_CD == <<"C", "D">>
T_zz == <<"z", "z">>
T_0000 == <<"0", "0", "0", "0">>
T_0001 == <<"0", "0", "0", "1">>
T_0002 == <<"0", "0", "0", "2">>
T_006D == <<"0", "0", "6", "D">>
T_0010 == <<"0", "0", "1", "0">>
T_big == <<"1", "0", "0", "0", "0", "0", "0", "0", "0">>
T_max == <<"f", "f", "f", "f", "F", "F", "F", "F">>

\* Payloads of the corpus runs: each kind of failure, and a success, for each
\* family of formats.
Payloads ==
    {T_11,
     join(<<T_AB, T_CD>>),
     T_zz,
     join(<<T_big, T_11>>),
     <<"U+00E9">>,
     join(<<T_0000, T_006D, T_0001, T_0000, T_0010, T_0002>>),
     join(<<T_0001, T_006D, T_0001, T_0000, T_0010, T_0002>>),
     join(<<T_0000, T_006D, T_0002, T_0000, T_0010, T_0002>>)}

\* The inputs of the corpus runs, where the documents and their links vary.
CorpusFormats == {"WINLIRC_RC5", "WINLIRC_RAW", "None"}

CorpusPayloads == {T_11, T_zz, <<"U+00E9">>}

CorpusAlts == {Absent, Attr(<<" ", "O", "n", "U+00E9">>)}

CorpusLabels == {Absent}

\* The inputs of the single-device runs, where formats and payloads vary.
DeviceAlts == {Absent, Attr(<<"O", "n">>)}

DeviceLabels == {Absent}

YamahaInputs(format) ==
    IF format = "YAMAHA_NEC_HEX" THEN YamahaOutcomes ELSE {YamahaRaises}

(***************************************************************************)
(* The program: the main loop and get_device.                              *)
(***************************************************************************)
InitWith(corpora) ==
    /\ fs \in corpora
    /\ pc = "main"
    /\ idx = 1
    /\ stack = <<>>
    /\ device = NoDevice
    /\ seen = <<>>
    /\ exc = ""
    /\ generated = {}
    /\ flipper_str = <<>>
    /\ error = ""

Top == stack[Len(stack)]

Crash(e) ==
    /\ pc' = "crashed"
    /\ error' = e

\* for filename in glob.iglob(...): f = open(filename); device = get_device(f)
\* The values of the previous iteration are dead here and are dropped.
MainOpen ==
    /\ pc = "main"
    /\ idx <= Len(fs)
    /\ pc' = "parse"
    /\ stack' = <<idx>>
    /\ device' = NoDevice
    /\ seen' = <<>>
    /\ exc' = ""
    /\ flipper_str' = <<>>
    /\ UNCHANGED <<fs, idx, generated, error>>

\* The loop is over: print().
MainDone ==
    /\ pc = "main"
    /\ idx > Len(fs)
    /\ pc' = "done"
    /\ UNCHANGED <<fs, idx, stack, device, seen, exc, generated, flipper_str, error>>

\* get_device, a device element found: the Device is built from its attributes.
ParseDevice(formats) ==
    /\ pc = "parse"
    /\ fs[Top].kind = "device"
    /\ \E format \in formats, manufacturer \in Manufacturers, model \in Models :
          device' = Device(Top, manufacturer, model, format, DefaultFrequency)
    /\ pc' = "buttons"
    /\ seen' = <<>>
    /\ UNCHANGED <<fs, idx, stack, exc, generated, flipper_str, error>>

RecurseSameFile ==
    /\ pc = "parse"
    /\ fs[Top].kind = "linked"
    /\ fs[Top].asset # 0
    /\ Len(stack) < RecursionLimit
    /\ stack' = Append(stack, Top)
    /\ UNCHANGED <<fs, pc, idx, device, seen, exc, generated, flipper_str, error>>

\* get_device, no device element but a linked one whose asset opens:
\* device = get_device(ff).
Recurse ==
    /\ pc = "parse"
    /\ fs[Top].kind = "linked"
    /\ fs[Top].asset # 0
    /\ Len(stack) < RecursionLimit
    /\ stack' = Append(stack, fs[Top].asset)
    /\ UNCHANGED <<fs, pc, idx, device, seen, exc, generated, flipper_str, error>>

\* The interpreter's recursion limit (1000 frames by default, scaled here to
\* the size of the corpus) ends a chain that does not end itself.
RecursionOverflow ==
    /\ pc = "parse"
    /\ fs[Top].kind = "linked"
    /\ fs[Top].asset # 0
    /\ Len(stack) >= RecursionLimit
    /\ Crash("RecursionError")
    /\ UNCHANGED <<fs, idx, stack, device, seen, exc, generated, flipper_str>>

\* open(f"ircodes/{asset_path}") of a file that does not exist.
LinkedMissing ==
    /\ pc = "parse"
    /\ fs[Top].kind = "linked"
    /\ fs[Top].asset = 0
    /\ Crash("FileNotFoundError")
    /\ UNCHANGED <<fs, idx, stack, device, seen, exc, generated, flipper_str>>

\* Neither element: device is None at device.attrs.
NoDeviceNoLinked ==
    /\ pc = "parse"
    /\ fs[Top].kind = "empty"
    /\ Crash("AttributeError")
    /\ UNCHANGED <<fs, idx, stack, device, seen, exc, generated, flipper_str>>

CaughtValueErrorOnly(e) == e \in {LiteralError, PreambleError, MismatchError}

\* except Exception: every exception of the construction is one.
Caught(e) == TRUE

AppendFirst(commands, cmd) == <<cmd>> \o commands

AppendCommand(commands, cmd) == Append(commands, cmd)

\* try: command = Command(...); device_obj.commands.append(command)
\* except Exception: pass
TryCommand(r) ==
    IF r.ok
    THEN /\ device' = [device EXCEPT !.commands = AppendCommand(@, r.cmd)]
         /\ exc' = ""
         /\ UNCHANGED <<pc, error>>
    ELSE IF Caught(r.exc)
    THEN exc' = r.exc /\ UNCHANGED <<device, pc, error>>
    ELSE exc' = r.exc /\ Crash(r.exc) /\ UNCHANGED device

\* The body of the loop for one button: no name candidate, continue.
Process(button) ==
    /\ seen' = Append(seen, button)
    /\ IF ~HasName(button)
       THEN exc' = "" /\ UNCHANGED <<device, pc, error>>
       ELSE TryCommand(Command(device.format, device.frequency,
                               command_name(button), button.text, button.yamaha))

\* One iteration of the loop over the buttons.
Button(alts, labels, texts, most) ==
    /\ pc = "buttons"
    /\ Len(seen) < most
    /\ \E alt \in alts, label \in labels, text \in texts,
          yamaha \in YamahaInputs(device.format) :
          Process([alt |-> alt, label |-> label, text |-> text,
                   yamaha |-> yamaha])
    /\ UNCHANGED <<fs, idx, stack, generated, flipper_str>>

Unwind ==
    /\ stack' = SubSeq(stack, 1, Len(stack) - 1)
    /\ pc' = IF Len(stack) = 1 THEN "got" ELSE "return"

\* The loop over the buttons is over: return device_obj.
EndButtons ==
    /\ pc = "buttons"
    /\ Unwind
    /\ UNCHANGED <<fs, idx, device, seen, exc, generated, flipper_str, error>>

\* The frame that recursed returns what it got: return device.
Return ==
    /\ pc = "return"
    /\ Unwind
    /\ UNCHANGED <<fs, idx, device, seen, exc, generated, flipper_str, error>>

SkippedNoneOnly(dev) == dev = NoDevice

\* if (device is None) or (len(device.commands) == 0): continue
Skipped(dev) == dev = NoDevice \/ Len(dev.commands) = 0

MainSkip ==
    /\ pc = "got"
    /\ Skipped(device)
    /\ pc' = "main"
    /\ idx' = idx + 1
    /\ UNCHANGED <<fs, stack, device, seen, exc, generated, flipper_str, error>>

\* generate_flipper_ir_file, makedirs, open(..., "wb"), write.
MainWrite ==
    /\ pc = "got"
    /\ ~Skipped(device)
    /\ flipper_str' = generate_flipper_ir_file(device)
    /\ generated' = generated \cup {idx}
    /\ IF Encodable(device)
       THEN pc' = "main" /\ idx' = idx + 1 /\ UNCHANGED error
       ELSE Crash("UnicodeEncodeError") /\ UNCHANGED idx
    /\ UNCHANGED <<fs, stack, device, seen, exc>>

Next ==
    \/ MainOpen
    \/ ParseDevice(CorpusFormats)
    \/ Recurse
    \/ RecursionOverflow
    \/ LinkedMissing
    \/ NoDeviceNoLinked
    \/ Button(CorpusAlts, CorpusLabels, CorpusPayloads, MaxButtons)
    \/ EndButtons
    \/ Return
    \/ MainSkip
    \/ MainWrite
    \/ MainDone

Init == InitWith(Corpora(NDocs))

Spec == Init /\ [][Next]_vars

FairSpec == Spec /\ WF_vars(Next)

(***************************************************************************)
(* One device document, every format, every kind of payload.               *)
(***************************************************************************)
OneDevice == {<<[kind |-> "device", asset |-> 0]>>}

InitDevice == InitWith(OneDevice)

NextDevice ==
    \/ MainOpen
    \/ ParseDevice(Formats \cup OtherFormats)
    \/ Button(DeviceAlts, DeviceLabels, Payloads, DevButtons)
    \/ EndButtons
    \/ MainSkip
    \/ MainWrite
    \/ MainDone

SpecDevice == InitDevice /\ [][NextDevice]_vars

(***************************************************************************)
(* One device document with one button: the decoding of a payload.         *)
(***************************************************************************)
T_0 == <<"0">>
T_00A1 == <<"0", "0", "A", "1">>
T_neg == <<"-", "1">>
T_0x1f == <<"\n", "0", "x", "1", "f">>

DecodeTokens == {<<>>, T_0, T_11, T_AB, T_CD, T_00A1, T_zz, T_big, T_max,
                 T_neg, T_0x1f}

TokenSeqs(tokens, most) == UNION {[1..k -> tokens] : k \in 1..most}

DecodePayloads == {join(ts) : ts \in TokenSeqs(DecodeTokens, MaxTokens)}

Named == {Attr(<<"O", "n">>)}

NextDecode ==
    \/ MainOpen
    \/ ParseDevice(Formats \cup OtherFormats)
    \/ Button(Named, {Absent}, DecodePayloads, 1)
    \/ EndButtons
    \/ MainSkip
    \/ MainWrite
    \/ MainDone

SpecDecode == InitDevice /\ [][NextDecode]_vars

(***************************************************************************)
(* One PRONTO_HEX device with one button: pronto2lirc.                     *)
(***************************************************************************)
ProntoFirst == {T_0000, T_0001, T_zz}
ProntoPeriod == {T_0000, T_006D}
ProntoCounts == {T_0000, T_0001, T_0002}
ProntoWidths == {T_0010, T_0002}

ProntoHeads ==
    {<<a, b, c, d>> : a \in ProntoFirst, b \in ProntoPeriod,
                      c \in ProntoCounts, d \in ProntoCounts}

ProntoTails == {<<>>} \cup TokenSeqs(ProntoWidths, MaxPulses)

\* Codes of fewer than four tokens, and codes of a four-token preamble
\* followed by pulse widths.
ProntoPayloads ==
    {join(ts) : ts \in TokenSeqs(ProntoFirst \cup ProntoCounts, 3)}
    \cup {join(h \o t) : h \in ProntoHeads, t \in ProntoTails}

NextPronto ==
    \/ MainOpen
    \/ ParseDevice({"PRONTO_HEX"})
    \/ Button(Named, {Absent}, ProntoPayloads, 1)
    \/ EndButtons
    \/ MainSkip
    \/ MainWrite
    \/ MainDone

SpecPronto == InitDevice /\ [][NextPronto]_vars

(***************************************************************************)
(* One device with one button: the name of the command.                    *)
(***************************************************************************)
AltChars == {"A", " ", "U+00E9"}
LabelChars == {"B", "\t", "U+3042"}

Texts(chars, most) == {<<>>} \cup UNION {[1..k -> chars] : k \in 1..most}

NameAlts == {Absent} \cup {Attr(v) : v \in Texts(AltChars, MaxName)}
NameLabels == {Absent} \cup {Attr(v) : v \in Texts(LabelChars, MaxName)}

NextName ==
    \/ MainOpen
    \/ ParseDevice({"WINLIRC_RAW", "WINLIRC_RC5"})
    \/ Button(NameAlts, NameLabels, {T_11}, 1)
    \/ EndButtons
    \/ MainSkip
    \/ MainWrite
    \/ MainDone

SpecName == InitDevice /\ [][NextName]_vars

(***************************************************************************)
(* Properties.                                                             *)
(***************************************************************************)
\* What the construction of the Command of a button gives for the device at hand.
Outcome(button) ==
    Command(device.format, device.frequency, command_name(button),
            button.text, button.yamaha)

Decodes(button) == HasName(button) /\ Outcome(button).ok

\* The commands of the named, decodable buttons, in the order of the buttons.
RECURSIVE Decodable(_)
Decodable(buttons) ==
    IF buttons = <<>> THEN <<>>
    ELSE (IF Decodes(Head(buttons)) THEN <<Outcome(Head(buttons)).cmd>> ELSE <<>>)
         \o Decodable(Tail(buttons))

ValuesOf(keys) ==
    LET ls == SelectSeq(flipper_str, LAMBDA l : l.k \in keys)
    IN  [i \in 1..Len(ls) |-> ls[i].v]

\* C1: a failure of the construction of a button's Command never leaves
\* get_device: the step that meets it changes nothing of the device, stays in
\* the loop over the buttons and ends no program; and when get_device returns,
\* the device holds one command for every named, decodable button it met, those
\* after a failure included.
C1_FailureContained ==
    /\ [][(pc = "buttons" /\ Len(seen') = Len(seen) + 1
             /\ HasName(seen'[Len(seen')]) /\ ~Outcome(seen'[Len(seen')]).ok)
          => (device' = device /\ pc' = "buttons" /\ error' = "" /\ exc' # "")]_vars
    /\ [](pc = "got" =>
            Len(device.commands) =
                Cardinality({i \in 1..Len(seen) : Decodes(seen[i])}))

\* A button failed, the next one was still decoded and appended.
C1_Witness ==
    /\ pc = "got"
    /\ Len(seen) = 2
    /\ HasName(seen[1]) /\ ~Outcome(seen[1]).ok
    /\ Len(device.commands) = 1

\* C2: the main loop goes on to the documents that follow one whose linked
\* asset is absent or that has neither a device nor a linked element.
C2_CorpusContinues ==
    ~(pc = "crashed" /\ error \in {"FileNotFoundError", "AttributeError"}
        /\ idx < Len(fs))

\* C3: a file is written for a document only when the device resolved for it
\* holds at least one command.
C3_NoEmptyOutput ==
    [][\A d \in generated' \ generated :
          d = idx /\ pc = "got" /\ Len(device.commands) > 0]_vars

\* A device whose buttons all failed was passed over.
C3_Witness ==
    /\ pc = "main"
    /\ idx = 2
    /\ 1 \notin generated
    /\ device.filename # 0
    /\ Len(seen) > 0
    /\ Len(device.commands) = 0

\* C4: the commands of the device are those of the named, decodable buttons
\* in the order of the document, and the blocks of the generated text follow
\* the same order.
C4_SourceOrder ==
    LET expected == Decodable(seen)
    IN  /\ device.commands = expected
        /\ flipper_str # <<>> =>
              /\ ValuesOf({"name"}) =
                    [i \in 1..Len(expected) |-> expected[i].name]
              /\ ValuesOf({"command", "data"}) =
                    [i \in 1..Len(expected) |->
                        IF expected[i].type_ = "parsed"
                        THEN expected[i].command
                        ELSE expected[i].data]

\* Two different commands were written.
C4_Witness ==
    /\ flipper_str # <<>>
    /\ Len(device.commands) = 2
    /\ device.commands[1] # device.commands[2]

BlockKeys(command) ==
    IF command.type_ = "parsed"
    THEN <<"#", "name", "protocol", "address", "command">>
    ELSE <<"#", "name", "type", "frequency", "duty_cycle", "data">>

RECURSIVE ExpectedKeys(_)
ExpectedKeys(commands) ==
    IF commands = <<>> THEN <<>>
    ELSE BlockKeys(Head(commands)) \o ExpectedKeys(Tail(commands))

\* C9: in the generated text every command has its name line followed by the
\* protocol, address and command lines exactly when it is parsed, and by the
\* type, frequency, duty_cycle and data lines exactly when it is raw.
C9_OneVariantPerBlock ==
    flipper_str # <<>> =>
        [i \in 1..Len(flipper_str) |-> flipper_str[i].k] =
            <<"Filetype", "Version", "#", "#", "# Autogenerated from">>
            \o ExpectedKeys(device.commands)

\* A text with two raw blocks was generated.
C9_Witness ==
    /\ flipper_str # <<>>
    /\ Len(device.commands) = 2
    /\ device.commands[2].type_ = "raw"

\* The button of a one-button run, once the loop has met it.
OneNamed == Len(seen) = 1 /\ HasName(seen[1])

Tokens == split(seen[1].text)

TokenInt(i) == int16(Tokens[i])

ProtocolOf(format) ==
    IF format = "WINLIRC_RC6" THEN "RC6"
    ELSE IF format = "XIAOMI_IR" THEN "NEC"
    ELSE IF format = "WINLIRC_RC5" THEN "RC5"
    ELSE "NECext"

IsParsed(cmd, protocol, address, command) ==
    /\ cmd.type_ = "parsed"
    /\ cmd.protocol = protocol
    /\ cmd.address = hexlify_upper(address)
    /\ cmd.command = hexlify_upper(command)

IsRaw(cmd, data) ==
    /\ cmd.type_ = "raw"
    /\ cmd.protocol = ""
    /\ cmd.duty_cycle = "0.33"
    /\ cmd.data = data

UpperHex == {HexDigits[i] : i \in 1..16}

\* Four pairs of uppercase hex digits separated by single spaces.
FourPairs(text) ==
    /\ Len(text) = 11
    /\ \A i \in {3, 6, 9} : text[i] = " "
    /\ \A i \in {1, 2, 4, 5, 7, 8, 10, 11} : text[i] \in UpperHex

\* The pairs are the bytes of the value, the least significant first.
LittleEndian(text, mag) ==
    /\ Len(mag) <= 8
    /\ \A b \in 1..4 :
          /\ HexVal(text[3 * b - 2]) = Pad8(mag)[9 - 2 * b]
          /\ HexVal(text[3 * b - 1]) = Pad8(mag)[10 - 2 * b]

Zeros == <<"0", "0", " ", "0", "0", " ", "0", "0", " ", "0", "0">>

A1 == <<"A", "1", " ", "0", "0", " ", "0", "0", " ", "0", "0">>

AllHex == \A i \in 1..Len(Tokens) : TokenInt(i).ok

TokenValue(i) == IntValue(TokenInt(i))

CountDiffers ==
    Len(Tokens) < 4 \/ Len(Tokens) # 4 + 2 * (TokenValue(3) + TokenValue(4))

\* The pulse widths of the command built, none when its data is empty.
PulseCount ==
    IF device.commands[1].data = <<>> THEN 0
    ELSE Len(split(device.commands[1].data))

Succeeded == Len(device.commands) = 1 /\ PulseCount = Len(Tokens) - 4

\* C7, as claimed: pronto2lirc fails with the preamble error when the first
\* token is not zero, with the pulse-count error when the number of tokens is
\* not 4 + 2 * (token 3 + token 4) (with any error when there is no token 3
\* or 4 to count with), and succeeds otherwise with one pulse width for every
\* token after the fourth.
C7_AsClaimed ==
    (OneNamed /\ AllHex) =>
        /\ TokenValue(1) # 0 => exc = PreambleError
        /\ (TokenValue(1) = 0 /\ Len(Tokens) < 4) => exc # ""
        /\ (TokenValue(1) = 0 /\ Len(Tokens) >= 4 /\ CountDiffers) =>
              exc = MismatchError
        /\ (TokenValue(1) = 0 /\ ~CountDiffers) => Succeeded

\* C7, amended: after the preamble check, a code of fewer than four tokens
\* fails with IndexError; after the count check, a code whose second token
\* is zero fails with ZeroDivisionError; every other code succeeds with one
\* pulse width for every token after the fourth.
C7_Amended ==
    (OneNamed /\ AllHex) =>
        /\ TokenValue(1) # 0 => exc = PreambleError
        /\ (TokenValue(1) = 0 /\ Len(Tokens) < 4) => exc = "IndexError"
        /\ (TokenValue(1) = 0 /\ Len(Tokens) >= 4 /\ CountDiffers) =>
              exc = MismatchError
        /\ (TokenValue(1) = 0 /\ ~CountDiffers /\ TokenValue(2) = 0) =>
              exc = "ZeroDivisionError"
        /\ (TokenValue(1) = 0 /\ ~CountDiffers /\ TokenValue(2) # 0) =>
              exc = "" /\ Succeeded
        /\ exc # "" => device.commands = <<>>

\* A code of 4 + 2 * (2 + 1) tokens was decoded into six pulse widths.
C7_Witness ==
    /\ OneNamed
    /\ Len(Tokens) = 10
    /\ SubSeq(Tokens, 1, 4) = <<T_0000, T_006D, T_0002, T_0001>>
    /\ Len(device.commands) = 1
    /\ PulseCount = 6

Strippable(text) == \A i \in 1..Len(text) : text[i] \in NonAscii \cup Whitespace

\* C8: a button with neither alt nor label gives no command and no
\* exception; alt is used before label; the name of an appended command is
\* the candidate without its non-ASCII characters and surrounding whitespace,
\* or "Unknown" when nothing else is left, so it is never empty, never holds a
\* non-ASCII character and neither starts nor ends with whitespace.
C8_Names ==
    Len(seen) = 1 =>
        LET b == seen[1]
            cs == device.commands
            candidate == IF b.alt.has THEN b.alt.v ELSE b.label.v
        IN  /\ (~b.alt.has /\ ~b.label.has) =>
                  cs = <<>> /\ exc = "" /\ error = ""
            /\ \A i \in 1..Len(cs) :
                  /\ Len(cs[i].name) > 0
                  /\ isascii(cs[i].name)
                  /\ cs[i].name[1] \notin Whitespace
                  /\ cs[i].name[Len(cs[i].name)] \notin Whitespace
                  /\ Strippable(candidate) => cs[i].name = Unknown
                  /\ ~Strippable(candidate) =>
                        cs[i].name = strip(replace_nonascii(candidate))
            /\ (b.alt.has \/ b.label.has) => Len(cs) = 1

\* An alt of whitespace and non-ASCII characters was named "Unknown" although
\* the label had a name.
C8_Witness ==
    /\ Len(seen) = 1
    /\ seen[1].alt = Attr(<<" ", "U+00E9">>)
    /\ seen[1].label = Attr(<<"B">>)
    /\ Len(device.commands) = 1
    /\ device.commands[1].name = Unknown

\* The document a chain of linked assets ends in, followed for at most as
\* many links as there are documents.
RECURSIVE Resolve(_, _)
Resolve(d, links) ==
    IF fs[d].kind = "linked" /\ fs[d].asset # 0 /\ links > 0
    THEN Resolve(fs[d].asset, links - 1)
    ELSE d

FinalAsset(d) == Resolve(d, Len(fs))

\* The chain comes back to a document already met.
Cyclic(d) == fs[FinalAsset(d)].kind = "linked" /\ fs[FinalAsset(d)].asset # 0

EndsInDevice(d) == fs[FinalAsset(d)].kind = "device"

Resolving(d) == pc = "parse" /\ stack = <<d>>

\* C10: get_device returns for a document only when its chain of linked
\* assets is acyclic, and then with the device of the final asset; it does
\* return whenever the chain is acyclic and ends in a device; on a cyclic
\* chain it recurses until the recursion limit ends the program.
C10_LinkedChains ==
    /\ [](pc = "got" =>
            /\ ~Cyclic(idx)
            /\ EndsInDevice(idx)
            /\ device.filename = FinalAsset(idx))
    /\ \A d \in 1..NDocs :
          (Resolving(d) /\ EndsInDevice(d))
              ~> (pc = "got" /\ idx = d /\ device.filename = FinalAsset(d))
    /\ \A d \in 1..NDocs :
          (Resolving(d) /\ Cyclic(d))
              ~> (pc = "crashed" /\ error = "RecursionError"
                    /\ Len(stack) = RecursionLimit)

\* The device of a linked asset was returned for the document linking to it.
C10_Witness ==
    /\ pc = "got"
    /\ fs[idx].kind = "linked"
    /\ device.filename # idx
    /\ Len(device.commands) > 0

====
